---------------------------- MODULE Spec2Model ----------------------------
(***************************************************************************)
(* A model of oliveagle/jsonpath (src/jsonpath.go): JsonPathLookup and the *)
(* functions it is built from (tokenize, parse_token, get_key, get_idx,    *)
(* get_range, get_filtered, parse_filter, eval_filter, cmp_any).           *)
(*                                                                         *)
(* Go strings are sequences of one-character strings, so that the code's   *)
(* character loops, slicing and prefix tests are computed as written.      *)
(* Go values (the decoded JSON tree held in interface{}) are tagged        *)
(* records; each kind has its own payload field.                           *)
(***************************************************************************)
EXTENDS Integers, Sequences, FiniteSets, TLC

VARIABLES
    obj,    \* the document the caller holds
    given,  \* the document as it was before the first call
    call,   \* the last call: the function and its arguments
    ret,    \* what the last call returned
    first,  \* what the first of two equal calls returned
    pc      \* "idle", "called" (one call made), "again" (the call repeated)

vars == <<obj, given, call, ret, first, pc>>

(***************************************************************************)
(* Strings                                                                 *)
(***************************************************************************)

\* The characters of a string literal, one per element.
S(s) == [i \in 1..Len(s) |-> SubSeq(s, i, i)]

\* Printable ASCII in code order, 32..95 and 97..126: Go compares strings
\* bytewise.  (The grave accent, 96, cannot be written in a string here.)
AsciiLo == S(" !\"#$%&'()*+,-./0123456789:;<=>?@ABCDEFGHIJKLMNOPQRSTUVWXYZ[\\]^_")

AsciiHi == S("abcdefghijklmnopqrstuvwxyz{|}~")

Code == [c \in {AsciiLo[i] : i \in 1..Len(AsciiLo)} \cup {AsciiHi[i] : i \in 1..Len(AsciiHi)} |->
            IF \E i \in 1..Len(AsciiLo) : AsciiLo[i] = c
            THEN 31 + (CHOOSE i \in 1..Len(AsciiLo) : AsciiLo[i] = c)
            ELSE 96 + (CHOOSE i \in 1..Len(AsciiHi) : AsciiHi[i] = c)]

Digits == S("0123456789")

IsDigit(c) == \E i \in 1..10 : Digits[i] = c

DigitVal(c) == (CHOOSE i \in 1..10 : Digits[i] = c) - 1

\* strings.Contains(s, sub)
Contains(s, sub) ==
    \E i \in 0..(Len(s) - Len(sub)) : SubSeq(s, i + 1, i + Len(sub)) = sub

\* strings.Index(s, sub): the first position (from 0) or -1
Index(s, sub) ==
    IF Contains(s, sub)
    THEN CHOOSE i \in 0..(Len(s) - Len(sub)) :
            /\ SubSeq(s, i + 1, i + Len(sub)) = sub
            /\ \A j \in 0..(i - 1) : SubSeq(s, j + 1, j + Len(sub)) # sub
    ELSE -1

HasPrefix(s, p) == Len(s) >= Len(p) /\ SubSeq(s, 1, Len(p)) = p

HasSuffix(s, p) == Len(s) >= Len(p) /\ SubSeq(s, Len(s) - Len(p) + 1, Len(s)) = p

\* strings.Trim(s, " ")
RECURSIVE TrimLeft(_)
TrimLeft(s) == IF s # <<>> /\ Head(s) = " " THEN TrimLeft(Tail(s)) ELSE s

RECURSIVE TrimRight(_)
TrimRight(s) ==
    IF s # <<>> /\ s[Len(s)] = " " THEN TrimRight(SubSeq(s, 1, Len(s) - 1)) ELSE s

Trim(s) == TrimRight(TrimLeft(s))

\* strings.Split(s, sep) for a one-character separator
RECURSIVE Split(_, _)
Split(s, sep) ==
    LET i == Index(s, <<sep>>)
    IN  IF i < 0 THEN <<s>>
        ELSE <<SubSeq(s, 1, i)>> \o Split(SubSeq(s, i + 2, Len(s)), sep)

\* The Go slice expression s[lo:hi] (positions from 0, hi excluded)
Slice(s, lo, hi) == SubSeq(s, lo + 1, hi)

\* Bytewise string order
RECURSIVE StrLess(_, _)
StrLess(a, b) ==
    IF b = <<>> THEN FALSE
    ELSE IF a = <<>> THEN TRUE
    ELSE IF Head(a) # Head(b) THEN Code[Head(a)] < Code[Head(b)]
    ELSE StrLess(Tail(a), Tail(b))

\* The decimal digits of a natural number
RECURSIVE NatDigits(_)
NatDigits(n) ==
    IF n < 10 THEN <<Digits[n + 1]>> ELSE NatDigits(n \div 10) \o <<Digits[(n % 10) + 1]>>

RECURSIVE DigitsVal(_)
DigitsVal(s) ==
    IF s = <<>> THEN 0 ELSE 10 * DigitsVal(SubSeq(s, 1, Len(s) - 1)) + DigitVal(s[Len(s)])

\* strconv.Atoi: an optional sign and at least one digit, else an error
\* (the model's integers stay far below the 64-bit range error)
Atoi(s) ==
    LET signed == s # <<>> /\ Head(s) \in {"+", "-"}
        body   == IF signed THEN Tail(s) ELSE s
        ok     == body # <<>> /\ \A i \in 1..Len(body) : IsDigit(body[i])
    IN  IF ~ok THEN [i |-> 0, err |-> "strconv.Atoi: invalid syntax"]
        ELSE [i   |-> IF signed /\ Head(s) = "-" THEN 0 - DigitsVal(body)
                       ELSE DigitsVal(body),
              err |-> "nil"]

(***************************************************************************)
(* Values and results                                                      *)
(***************************************************************************)

NullV   == [k |-> "null"]
Bool(b) == [k |-> "bool", b |-> b]
\* A float64: n / 10^e, with e = 0 or n not a multiple of 10 (the decoder
\* yields one float64 per number, whatever its spelling)
Dec(n, e) == [k |-> "num", n |-> n, e |-> e]
Num(n)  == Dec(n, 0)
Str(s)  == [k |-> "str", s |-> s]
Arr(a)  == [k |-> "arr", a |-> a]
Obj(o)  == [k |-> "obj", o |-> o]

\* An int held in an interface{} (a range bound); NullV is the nil bound
IntV(i) == [k |-> "int", i |-> i]

NoErr == "nil"

ErrGetFromNullObj == "get attribute from null object"

Ret(v, e) == [val |-> v, err |-> e]

\* A run-time panic ends the call with neither a value nor an error
Panic(msg) == [val |-> NullV, err |-> "panic: " \o msg]

IsPanic(r) == r.err \in {"panic: " \o m : m \in
    {"nil Kind", "slice bounds", "index out of range", "interface conversion"}}

(***************************************************************************)
(* get_idx, get_key, get_range                                             *)
(***************************************************************************)

\* get_idx with the lower bound checked one too high: the index -L, the
\* first element, is refused
get_idx_strict(o, idx) ==
    IF o.k = "null" THEN Panic("nil Kind")
    ELSE IF o.k = "arr" THEN
        IF idx >= 0
        THEN IF idx >= Len(o.a) THEN Ret(NullV, "index out of range")
             ELSE Ret(o.a[idx + 1], NoErr)
        ELSE IF Len(o.a) + idx <= 0 THEN Ret(NullV, "index out of range")
             ELSE Ret(o.a[Len(o.a) + idx + 1], NoErr)
    ELSE Ret(NullV, "object is not Slice")

get_idx(o, idx) ==
    IF o.k = "null" THEN Panic("nil Kind")
    ELSE IF o.k = "arr" THEN
        LET length == Len(o.a)
        IN  IF idx >= 0
            THEN IF idx >= length THEN Ret(NullV, "index out of range")
                 ELSE Ret(o.a[idx + 1], NoErr)
            ELSE LET _idx == length + idx
                 IN  IF _idx < 0 THEN Ret(NullV, "index out of range")
                     ELSE Ret(o.a[_idx + 1], NoErr)
    ELSE Ret(NullV, "object is not Slice")

RECURSIVE get_key(_, _)
\* get_key reading the map without looking at whether the key is there: a
\* missing key gives nil and no error
get_key_unchecked(o, key) ==
    IF o.k = "null" THEN Ret(NullV, ErrGetFromNullObj)
    ELSE IF o.k = "obj" THEN
        IF key \in DOMAIN o.o THEN Ret(o.o[key], NoErr) ELSE Ret(NullV, NoErr)
    ELSE IF o.k = "arr" THEN
        LET res[i \in 0..Len(o.a)] ==
                IF i = 0 THEN <<>>
                ELSE IF get_key(o.a[i], key).err = NoErr
                THEN Append(res[i - 1], get_key(o.a[i], key).val)
                ELSE res[i - 1]
        IN  Ret(Arr(res[Len(o.a)]), NoErr)
    ELSE Ret(NullV, "object is not map")

\* get_key without the test for nil: a null value is a value that is not a
\* map, and an object without the key and a null value give one error
get_key_null_missing(o, key) ==
    IF o.k = "null" THEN Ret(NullV, "key error: not found in object")
    ELSE IF o.k = "obj" THEN
        IF key \in DOMAIN o.o THEN Ret(o.o[key], NoErr)
        ELSE Ret(NullV, "key error: not found in object")
    ELSE IF o.k = "arr" THEN
        LET res[i \in 0..Len(o.a)] ==
                IF i = 0 THEN <<>>
                ELSE IF get_key(o.a[i], key).err = NoErr
                THEN Append(res[i - 1], get_key(o.a[i], key).val)
                ELSE res[i - 1]
        IN  Ret(Arr(res[Len(o.a)]), NoErr)
    ELSE Ret(NullV, "object is not map")

\* get_key with the broadcast keeping a place for every element: an element
\* whose key access fails gives nil in the result
get_key_keep_failed(o, key) ==
    IF o.k = "null" THEN Ret(NullV, ErrGetFromNullObj)
    ELSE IF o.k = "obj" THEN
        IF key \in DOMAIN o.o THEN Ret(o.o[key], NoErr)
        ELSE Ret(NullV, "key error: not found in object")
    ELSE IF o.k = "arr" THEN
        Ret(Arr([i \in 1..Len(o.a) |-> get_key(o.a[i], key).val]), NoErr)
    ELSE Ret(NullV, "object is not map")

get_key(o, key) ==
    IF o.k = "null" THEN Ret(NullV, ErrGetFromNullObj)
    ELSE IF o.k = "obj" THEN
        IF \E kv \in DOMAIN o.o : kv = key
        THEN Ret(o.o[CHOOSE kv \in DOMAIN o.o : kv = key], NoErr)
        ELSE Ret(NullV, "key error: not found in object")
    ELSE IF o.k = "arr" THEN
        LET res[i \in 0..Len(o.a)] ==
                IF i = 0 THEN <<>>
                ELSE LET tmp == get_idx(o, i - 1).val
                         v   == get_key(tmp, key)
                     IN  IF v.err = NoErr THEN Append(res[i - 1], v.val)
                         ELSE res[i - 1]
        IN  Ret(Arr(res[Len(o.a)]), NoErr)
    ELSE Ret(NullV, "object is not map")

\* get_range with the bounds resolved by from and to
get_range_resolved(o, _frm, _to) ==
    IF _frm < 0 \/ _frm >= Len(o.a) THEN Ret(NullV, "index [from] out of range")
    ELSE IF _to < 0 \/ _to > Len(o.a) THEN Ret(NullV, "index [to] out of range")
    ELSE IF _to < _frm THEN Panic("slice bounds")
    ELSE Ret(Arr(Slice(o.a, _frm, _to)), NoErr)

\* get_range with a negative to resolved to length + to: the element that
\* to names is left out
get_range_negative_to(o, frm, to) ==
    IF o.k = "null" THEN Panic("nil Kind")
    ELSE IF o.k = "arr" THEN
        get_range_resolved(o,
            IF frm.k = "int" THEN (IF frm.i < 0 THEN Len(o.a) + frm.i ELSE frm.i) ELSE 0,
            IF to.k = "int" THEN (IF to.i < 0 THEN Len(o.a) + to.i ELSE to.i + 1)
            ELSE Len(o.a))
    ELSE Ret(NullV, "object is not Slice")

\* get_range with a to of 0 or more taken as it is: the element at to is
\* left out
get_range_exclusive_to(o, frm, to) ==
    IF o.k = "null" THEN Panic("nil Kind")
    ELSE IF o.k = "arr" THEN
        get_range_resolved(o,
            IF frm.k = "int" THEN (IF frm.i < 0 THEN Len(o.a) + frm.i ELSE frm.i) ELSE 0,
            IF to.k = "int" THEN (IF to.i < 0 THEN Len(o.a) + to.i + 1 ELSE to.i)
            ELSE Len(o.a))
    ELSE Ret(NullV, "object is not Slice")

get_range(o, frm, to) ==
    IF o.k = "null" THEN Panic("nil Kind")
    ELSE IF o.k = "arr" THEN
        get_range_resolved(o,
            IF frm.k = "int" THEN (IF frm.i < 0 THEN Len(o.a) + frm.i ELSE frm.i) ELSE 0,
            IF to.k = "int" THEN (IF to.i < 0 THEN Len(o.a) + to.i + 1 ELSE to.i + 1)
            ELSE Len(o.a))
    ELSE Ret(NullV, "object is not Slice")

(***************************************************************************)
(* tokenize, parse_token                                                   *)
(***************************************************************************)

\* One turn of tokenize's loop, on the character at idx (from 0): st holds
\* tokens, the text accumulated so far and the error that ended the loop.
tokenize_step(query, st, idx) ==
    LET x     == query[idx + 1]
        token == Append(st.token, x)
        go(tokens, tok) == [tokens |-> tokens, token |-> tok, err |-> NoErr]
    IN  IF st.err # NoErr THEN st
        ELSE IF idx = 0 THEN
            IF token = <<"$">> \/ token = <<"@">>
            THEN go(Append(st.tokens, token), <<>>)
            ELSE [tokens |-> <<>>, token |-> <<>>, err |-> "should start with '$'"]
        ELSE IF token = <<".">> THEN go(st.tokens, token)
        ELSE IF token = <<".", ".">> THEN
            go(IF st.tokens[Len(st.tokens)] # <<"*">>
               THEN Append(st.tokens, <<"*">>) ELSE st.tokens,
               <<".">>)
        ELSE IF Contains(token, <<"[">>) THEN
            IF x = "]" /\ ~HasSuffix(token, <<"\\", "]">>)
            THEN go(Append(st.tokens, IF token[1] = "." THEN Slice(token, 1, Len(token))
                                      ELSE token),
                    <<>>)
            ELSE go(st.tokens, token)
        ELSE IF x = "."
            THEN go(Append(st.tokens, IF token[1] = "."
                                      THEN Slice(token, 1, Len(token) - 1)
                                      ELSE Slice(token, 0, Len(token) - 1)),
                    <<".">>)
            ELSE go(st.tokens, token)

\* The turns lo..hi of the loop, in order, stopping at an error (the range
\* is split in halves to keep the evaluation shallow)
RECURSIVE tokenize_loop(_, _, _, _)
tokenize_loop(query, st, lo, hi) ==
    LET rest(half, mid) ==
            IF half.err # NoErr THEN half ELSE tokenize_loop(query, half, mid + 1, hi)
        halves(mid) == rest(tokenize_loop(query, st, lo, mid), mid)
    IN  IF lo > hi THEN st
        ELSE IF lo = hi THEN tokenize_step(query, st, lo)
        ELSE halves((lo + hi) \div 2)

tokenize(query) ==
    LET last(l, token) ==
            IF token # <<"*">> \/ l.tokens[Len(l.tokens)] # <<"*">>
            THEN [tokens |-> Append(l.tokens, token), err |-> NoErr]
            ELSE [tokens |-> l.tokens, err |-> NoErr]
        done(l) ==
            IF l.err # NoErr THEN [tokens |-> <<>>, err |-> l.err]
            ELSE IF Len(l.token) > 0
            THEN last(l, IF l.token[1] = "." THEN Slice(l.token, 1, Len(l.token))
                         ELSE l.token)
            ELSE [tokens |-> l.tokens, err |-> NoErr]
    IN  done(tokenize_loop(query, [tokens |-> <<>>, token |-> <<>>, err |-> NoErr],
                           0, Len(query) - 1))

\* args of parse_token: nil, []int, [2]interface{} or string
Ints(l)      == [k |-> "ints", l |-> l]
Pair(f, t)   == [k |-> "pair", frm |-> f, to |-> t]

Parsed(op, key, args, err) == [op |-> op, key |-> key, args |-> args, err |-> err]

\* The idx branch: every part of the tail must be an integer
RECURSIVE parse_idx(_, _)
parse_idx(parts, res) ==
    LET next(i) ==
            IF i.err = NoErr THEN parse_idx(Tail(parts), Append(res, i.i))
            ELSE [l |-> <<>>, err |-> i.err]
    IN  IF parts = <<>> THEN [l |-> res, err |-> NoErr]
        ELSE next(Atoi(Trim(Head(parts))))

parse_token(token) ==
    LET bound(i) == IF i.err = NoErr THEN IntV(i.i) ELSE NullV
        range(key, f, t) == Parsed("range", key, Pair(bound(f), bound(t)), t.err)
        ranges(key, tails) ==
            IF Len(tails) # 2
            THEN Parsed("range", key, NullV, "only support one range(from, to)")
            ELSE range(key, Atoi(Trim(tails[1])), Atoi(Trim(tails[2])))
        idxs(key, r) ==
            IF r.err = NoErr THEN Parsed("idx", key, Ints(r.l), NoErr)
            ELSE Parsed("", <<>>, NullV, r.err)
        bracket(key, tail0, tail) ==
            IF Len(tail0) < 3 THEN Parsed("", key, NullV, "len(tail) should >=3")
            ELSE IF Contains(tail, <<"?">>) THEN
                IF HasPrefix(tail, <<"?", "(">>) /\ HasSuffix(tail, <<")">>)
                THEN Parsed("filter", key, Str(Trim(Slice(tail, 2, Len(tail) - 1))), NoErr)
                ELSE Parsed("filter", key, NullV, NoErr)
            ELSE IF Contains(tail, <<":">>) THEN ranges(key, Split(tail, ":"))
            ELSE IF tail = <<"*">> THEN Parsed("range", key, Pair(NullV, NullV), NoErr)
            ELSE idxs(key, parse_idx(Split(tail, ","), <<>>))
        tailed(key, tail0) == bracket(key, tail0, Slice(tail0, 1, Len(tail0) - 1))
        keyed(bracket_idx) ==
            IF bracket_idx < 0 THEN Parsed("key", token, NullV, NoErr)
            ELSE tailed(Slice(token, 0, bracket_idx), Slice(token, bracket_idx, Len(token)))
    IN  IF token = <<"$">> THEN Parsed("root", <<"$">>, NullV, NoErr)
        ELSE IF token = <<"*">> THEN Parsed("scan", <<"*">>, NullV, NoErr)
        ELSE keyed(Index(token, <<"[">>))

(***************************************************************************)
(* The filter mini-language                                                *)
(***************************************************************************)

filter_get_from_explicit_path_step(xobj, s) ==
    LET index(t, r) ==
            IF r.err # NoErr THEN Ret(NullV, r.err) ELSE get_idx(r.val, t.args.l[1])
        step(t) ==
            IF t.op = "key" THEN get_key(xobj, t.key)
            ELSE IF t.op = "idx" THEN
                IF Len(t.args.l) # 1
                THEN Ret(NullV, "don't support multiple index in filter")
                ELSE index(t, get_key(xobj, t.key))
            ELSE Ret(NullV, "expression don't support in filter")
    IN  step(parse_token(s))

RECURSIVE filter_get_from_explicit_path_loop(_, _)
filter_get_from_explicit_path_loop(xobj, steps) ==
    LET next(r) ==
            IF r.err # NoErr THEN Ret(NullV, r.err)
            ELSE filter_get_from_explicit_path_loop(r.val, Tail(steps))
    IN  IF steps = <<>> THEN Ret(xobj, NoErr)
        ELSE next(filter_get_from_explicit_path_step(xobj, Head(steps)))

filter_get_from_explicit_path(o, path) ==
    LET walk(t) ==
            IF t.err # NoErr THEN Ret(NullV, t.err)
            ELSE IF Len(t.tokens) = 0 THEN Panic("index out of range")
            ELSE IF t.tokens[1] # <<"@">> /\ t.tokens[1] # <<"$">>
            THEN Ret(NullV, "$ or @ should in front of path")
            ELSE filter_get_from_explicit_path_loop(o, Tail(t.tokens))
    IN  walk(tokenize(path))

\* The state of parse_filter's loop
PF(tmp, stage, str_embrace, lp, op, rp, err) ==
    [tmp |-> tmp, stage |-> stage, str_embrace |-> str_embrace,
     lp |-> lp, op |-> op, rp |-> rp, err |-> err]

\* switch stage { case 0: lp = tmp; case 1: op = tmp; case 2: rp = tmp }
parse_filter_commit(st) ==
    [st EXCEPT !.lp = IF st.stage = 0 THEN st.tmp ELSE @,
               !.op = IF st.stage = 1 THEN st.tmp ELSE @,
               !.rp = IF st.stage = 2 THEN st.tmp ELSE @]

\* parse_filter's loop without the quotes: a quote is a character like any
\* other and every space ends a field
parse_filter_step_unquoted(filter, st, idx) ==
    IF st.err # NoErr THEN st
    ELSE IF filter[idx + 1] = " " THEN
        IF st.stage + 1 > 2
        THEN PF(<<>>, st.stage + 1, FALSE, <<>>, <<>>, <<>>, "invalid char")
        ELSE [parse_filter_commit(st) EXCEPT !.tmp = <<>>, !.stage = @ + 1]
    ELSE [st EXCEPT !.tmp = Append(@, filter[idx + 1])]

\* One turn of parse_filter's loop, on the character at idx (from 0)
parse_filter_step(filter, st, idx) ==
    LET c == filter[idx + 1]
    IN  IF st.err # NoErr THEN st
        ELSE IF c = "'" THEN
            IF st.str_embrace = FALSE
            THEN [st EXCEPT !.str_embrace = TRUE]
            ELSE [parse_filter_commit(st) EXCEPT !.tmp = <<>>]
        ELSE IF c = " " THEN
            IF st.str_embrace = TRUE
            THEN [st EXCEPT !.tmp = Append(@, c)]
            ELSE LET n == [parse_filter_commit(st) EXCEPT !.tmp = <<>>, !.stage = @ + 1]
                 IN  IF n.stage > 2
                     THEN PF(<<>>, n.stage, FALSE, <<>>, <<>>, <<>>, "invalid char")
                     ELSE n
        ELSE [st EXCEPT !.tmp = Append(@, c)]

RECURSIVE parse_filter_loop(_, _, _, _)
parse_filter_loop(filter, st, lo, hi) ==
    LET rest(half, mid) ==
            IF half.err # NoErr THEN half ELSE parse_filter_loop(filter, half, mid + 1, hi)
        halves(mid) == rest(parse_filter_loop(filter, st, lo, mid), mid)
    IN  IF lo > hi THEN st
        ELSE IF lo = hi THEN parse_filter_step(filter, st, lo)
        ELSE halves((lo + hi) \div 2)

parse_filter(filter) ==
    LET out(fin) == [lp |-> fin.lp, op |-> fin.op, rp |-> fin.rp, err |-> fin.err]
        done(st) ==
            out(IF st.err = NoErr /\ st.tmp # <<>>
                THEN IF st.stage = 0 THEN [st EXCEPT !.lp = st.tmp, !.op = S("exists")]
                     ELSE parse_filter_commit(st)
                ELSE st)
    IN  done(parse_filter_loop(filter, PF(<<>>, 0, FALSE, <<>>, <<>>, <<>>, NoErr),
                               0, Len(filter) - 1))

isNumber(s) ==
    /\ \A i \in 1..Len(s) : s[i] = "." \/ IsDigit(s[i])
    /\ Cardinality({i \in 1..Len(s) : s[i] = "."}) <= 1

(***************************************************************************)
(* fmt.Sprintf("%s", v) and fmt.Sprintf("%v", v)                           *)
(***************************************************************************)

RECURSIVE Join(_, _)
Join(parts, sep) ==
    IF parts = <<>> THEN <<>>
    ELSE IF Len(parts) = 1 THEN parts[1]
    ELSE parts[1] \o sep \o Join(Tail(parts), sep)

\* The keys of a map in increasing order: fmt prints maps sorted by key
RECURSIVE SortedKeys(_)
SortedKeys(ks) ==
    LET from(m) == <<m>> \o SortedKeys(ks \ {m})
    IN  IF ks = {} THEN <<>>
        ELSE from(CHOOSE x \in ks : \A y \in ks \ {x} : StrLess(x, y))

RECURSIVE StripZeros(_)
StripZeros(ds) ==
    IF Len(ds) > 1 /\ ds[Len(ds)] = "0" THEN StripZeros(SubSeq(ds, 1, Len(ds) - 1)) ELSE ds

RECURSIVE Pow10(_)
Pow10(n) == IF n = 0 THEN 1 ELSE 10 * Pow10(n - 1)

RECURSIVE ZeroPad(_, _)
ZeroPad(ds, n) == IF Len(ds) >= n THEN ds ELSE ZeroPad(<<"0">> \o ds, n)

\* %v of a float64 n / 10^e (at least 1/10000 in size, or zero): the
\* shortest %g form, which switches to an exponent (of at least two
\* digits) when the decimal exponent reaches 6
FormatFloat(n, e) ==
    LET neg  == n < 0
        abs  == IF neg THEN 0 - n ELSE n
        int  == NatDigits(abs \div Pow10(e))
        frac == IF e = 0 THEN <<>> ELSE ZeroPad(NatDigits(abs % Pow10(e)), e)
        x    == Len(int) - 1
        sig  == StripZeros(int \o frac)
        txt  == IF x < 6 THEN int \o (IF e = 0 THEN <<>> ELSE <<".">> \o frac)
                ELSE <<sig[1]>> \o (IF Len(sig) > 1 THEN <<".">> \o Tail(sig) ELSE <<>>)
                     \o S("e+") \o (IF x < 10 THEN <<"0">> ELSE <<>>) \o NatDigits(x)
    IN  (IF neg THEN <<"-">> ELSE <<>>) \o txt

RECURSIVE Sprintf(_, _)
Sprintf(verb, v) ==
    LET bad(kind, txt) == S("%!") \o verb \o S("(") \o kind \o txt \o S(")")
        scalar(kind, txt) == IF verb = S("v") THEN txt ELSE bad(kind, txt)
        item(x) ==
            IF v.k = "arr" THEN Sprintf(verb, v.a[x]) ELSE x \o S(":") \o Sprintf(verb, v.o[x])
        list(xs) ==
            (IF v.k = "arr" THEN S("[") ELSE S("map["))
            \o Join([i \in 1..Len(xs) |-> item(xs[i])], S(" ")) \o S("]")
    IN  IF v.k = "str" THEN v.s
        ELSE IF v.k = "num" THEN scalar(S("float64="), FormatFloat(v.n, v.e))
        ELSE IF v.k = "null" THEN scalar(<<>>, S("<nil>"))
        ELSE IF v.k = "bool"
        THEN scalar(S("bool="), IF v.b THEN S("true") ELSE S("false"))
        ELSE list(IF v.k = "arr" THEN [i \in 1..Len(v.a) |-> i]
                  ELSE SortedKeys(DOMAIN v.o))

(***************************************************************************)
(* cmp_any: the comparison is handed to go/types.Eval as a Go expression   *)
(***************************************************************************)

\* A Bool result with an error
BRet(b, e) == [res |-> b, err |-> e]

RECURSIVE OctalVal(_)
OctalVal(s) ==
    IF s = <<>> THEN 0 ELSE 8 * OctalVal(SubSeq(s, 1, Len(s) - 1)) + DigitVal(s[Len(s)])

\* A text of digits with at most one "." read as a Go numeric literal: the
\* value m / 10^e, or not ok when Go rejects it (no digit at all, or a digit
\* 8 or 9 in a literal that a leading 0 makes octal)
GoNumLit(s) ==
    LET dot == Index(s, <<".">>)
        ds  == SelectSeq(s, LAMBDA c : c # ".")
    IN  IF ds = <<>> THEN [ok |-> FALSE, m |-> 0, e |-> 0]
        ELSE IF dot >= 0 THEN [ok |-> TRUE, m |-> DigitsVal(ds), e |-> Len(s) - dot - 1]
        ELSE IF Len(s) > 1 /\ s[1] = "0"
             THEN IF \E i \in 1..Len(s) : s[i] \in {"8", "9"}
                  THEN [ok |-> FALSE, m |-> 0, e |-> 0]
                  ELSE [ok |-> TRUE, m |-> OctalVal(s), e |-> 0]
        ELSE [ok |-> TRUE, m |-> DigitsVal(s), e |-> 0]

\* The five comparison operators on an order given by less and equal
Compare(op, less, equal) ==
    IF op = S("<") THEN less
    ELSE IF op = S("<=") THEN less \/ equal
    ELSE IF op = S("==") THEN equal
    ELSE IF op = S(">=") THEN ~less
    ELSE ~less /\ ~equal

\* types.Eval of `a op b` (numbers), exact on untyped constants
EvalNum(a, op, b) ==
    LET cmp(l, r) == BRet(Compare(op, l < r, l = r), NoErr)
        eval(x, y) ==
            IF ~x.ok \/ ~y.ok THEN BRet(FALSE, "eval error")
            ELSE cmp(x.m * Pow10(y.e), y.m * Pow10(x.e))
    IN  eval(GoNumLit(a), GoNumLit(b))

\* types.Eval of `"a" op "b"` (strings): a quote or a backslash in the text
\* breaks the literal (escapes are not modelled: the error stands for them)
EvalStr(a, op, b) ==
    IF \E c \in {"\"", "\\"} : Contains(a, <<c>>) \/ Contains(b, <<c>>)
    THEN BRet(FALSE, "eval error")
    ELSE BRet(Compare(op, StrLess(a, b), a = b), NoErr)

cmp_any(obj1, obj2, op) ==
    LET cmp(s1, s2, v1, v2) ==
            IF op \notin {S("<"), S("<="), S("=="), S(">="), S(">")}
            THEN BRet(FALSE, "op should only be <, <=, ==, >= and >")
            ELSE IF isNumber(s1) /\ isNumber(s2) THEN EvalNum(v1, op, v2)
            ELSE EvalStr(v1, op, v2)
    IN  cmp(Sprintf(S("s"), obj1), Sprintf(S("s"), obj2),
            Sprintf(S("v"), obj1), Sprintf(S("v"), obj2))

(***************************************************************************)
(* eval_filter, get_filtered                                               *)
(***************************************************************************)

\* An operand of a filter: a path from the element, a path from the root, or
\* the text itself
filter_operand(o, root, p) ==
    IF HasPrefix(p, S("@.")) \/ HasPrefix(p, S("$."))
    THEN filter_get_from_explicit_path(IF HasPrefix(p, S("@.")) THEN o ELSE root, p)
    ELSE Ret(Str(p), NoErr)

eval_filter(o, root, lp, op, rp) ==
    LET eval(v) ==
            IF IsPanic(v[lp]) THEN BRet(FALSE, v[lp].err)
            ELSE IF op = S("exists") THEN BRet(v[lp].val.k # "null", NoErr)
            ELSE IF op = S("=~") THEN BRet(FALSE, "not implemented yet")
            ELSE IF IsPanic(v[rp]) THEN BRet(FALSE, v[rp].err)
            ELSE cmp_any(v[lp].val, v[rp].val, op)
    IN  eval([p \in {lp, rp} |-> filter_operand(o, root, p)])

\* reflect.Value.MapKeys returns the keys in an unspecified order, which Go
\* randomizes: seed, a permutation of 1..Len(seed), orders the first
\* Len(seed) keys (taken in increasing order); the others follow.
MapKeys(o, seed) ==
    LET order(ks, ps) == [i \in 1..Len(ks) |-> IF i <= Len(ps) THEN ks[ps[i]] ELSE ks[i]]
        keys(ks) == order(ks, SelectSeq(seed, LAMBDA q : q <= Len(ks)))
    IN  keys(SortedKeys(DOMAIN o.o))

RECURSIVE get_filtered_loop(_, _, _, _)
get_filtered_loop(elems, root, f, res) ==
    LET next(tmp, e) ==
            IF e.err # NoErr
            THEN (IF IsPanic(e) THEN Ret(NullV, e.err) ELSE Ret(Arr(<<>>), e.err))
            ELSE get_filtered_loop(Tail(elems), root, f,
                                   IF e.res THEN Append(res, tmp) ELSE res)
    IN  IF elems = <<>> THEN Ret(Arr(res), NoErr)
        ELSE next(Head(elems), eval_filter(Head(elems), root, f.lp, f.op, f.rp))

\* On an error the result is a nil []interface{}: an empty array once it is
\* held in an interface{}
get_filtered(o, root, filter, seed) ==
    LET values(ks) == [i \in 1..Len(ks) |-> o.o[ks[i]]]
        select(f) ==
            IF f.err # NoErr THEN Ret(Arr(<<>>), f.err)
            ELSE IF o.k = "null" THEN Panic("nil Kind")
            ELSE IF o.k \in {"arr", "obj"}
            THEN get_filtered_loop(IF o.k = "arr" THEN o.a ELSE values(MapKeys(o, seed)),
                                   root, f, <<>>)
            ELSE Ret(Arr(<<>>), "don't support filter on this type")
    IN  select(parse_filter(filter))

(***************************************************************************)
(* JsonPathLookup                                                          *)
(***************************************************************************)

\* deepcopy.Iface: a copy of the tree, built node by node
RECURSIVE deepcopy_Iface(_)
deepcopy_Iface(v) ==
    IF v.k = "arr" THEN Arr([i \in 1..Len(v.a) |-> deepcopy_Iface(v.a[i])])
    ELSE IF v.k = "obj" THEN Obj([kv \in DOMAIN v.o |-> deepcopy_Iface(v.o[kv])])
    ELSE v

\* for _, x := range args.([]int) { tmp, err := get_idx(xobj, x) ... }
\* The multi-index loop giving the elements in the order of the array, each
\* once, and not in the order asked for
get_multi_idx_sorted(xobj, args, res) ==
    IF \E n \in 1..Len(args) : get_idx(xobj, args[n]).err # NoErr
    THEN Ret(NullV, "index out of range")
    ELSE Ret(Arr(SelectSeq(xobj.a,
                           LAMBDA e : \E n \in 1..Len(args) : get_idx(xobj, args[n]).val = e)),
             NoErr)

RECURSIVE get_multi_idx(_, _, _)
get_multi_idx(xobj, args, res) ==
    IF args = <<>> THEN Ret(Arr(res), NoErr)
    ELSE LET tmp == get_idx(xobj, Head(args))
         IN  IF tmp.err # NoErr THEN Ret(NullV, tmp.err)
             ELSE get_multi_idx(xobj, Tail(args), Append(res, tmp.val))

\* One turn of the loop over the steps: the new xobj, or the error returned.
\* The error of parse_token is not looked at, nor is the error of
\* get_filtered.
lookup_step(xobj, root, s, seed) ==
    LET checked(r) == IF r.err # NoErr THEN Ret(NullV, r.err) ELSE r
        filtered(r) == IF IsPanic(r) THEN r ELSE Ret(r.val, NoErr)
        step(t, k) ==
            IF t.op = "key" THEN checked(k)
            ELSE IF t.op = "idx" THEN
                IF k.err # NoErr THEN Ret(NullV, k.err)
                ELSE IF Len(t.args.l) > 1 THEN get_multi_idx(k.val, t.args.l, <<>>)
                ELSE IF Len(t.args.l) = 1 THEN checked(get_idx(k.val, t.args.l[1]))
                ELSE Ret(NullV, "cannot index on empty slice")
            ELSE IF t.op = "range" THEN
                IF k.err # NoErr THEN Ret(NullV, k.err)
                ELSE IF t.args.k = "pair"
                THEN checked(get_range(k.val, t.args.frm, t.args.to))
                ELSE Ret(NullV, "range args length should be 2")
            ELSE IF t.op = "filter" THEN
                IF k.err # NoErr THEN Ret(NullV, k.err)
                ELSE IF t.args.k # "str" THEN Panic("interface conversion")
                ELSE filtered(get_filtered(k.val, root, t.args.s, seed))
            ELSE Ret(NullV, "expression don't support in filter")
        keyed(t) == step(t, get_key(xobj, t.key))
    IN  keyed(parse_token(s))

RECURSIVE lookup_loop(_, _, _, _)
lookup_loop(xobj, root, steps, seed) ==
    LET next(r) ==
            IF r.err # NoErr THEN r ELSE lookup_loop(r.val, root, Tail(steps), seed)
    IN  IF steps = <<>> THEN Ret(xobj, NoErr)
        ELSE next(lookup_step(xobj, root, Head(steps), seed))

JsonPathLookup(o, jpath, seed) ==
    LET walk(t) ==
            IF t.err # NoErr THEN Ret(NullV, t.err)
            ELSE IF Len(t.tokens) = 0 THEN Panic("index out of range")
            ELSE IF t.tokens[1] # <<"@">> /\ t.tokens[1] # <<"$">>
            THEN Ret(NullV, "$ or @ should in front of path")
            ELSE lookup_loop(deepcopy_Iface(o), o, Tail(t.tokens), seed)
    IN  walk(tokenize(jpath))

(***************************************************************************)
(* The documents and the inputs of the calls                               *)
(***************************************************************************)

\* The longest array of the index and range documents
MaxLen == 3

\* The largest index or range bound, in size, that a call is given
MaxIdx == 4

\* The longest array of the filter documents
MaxElems == 3

\* The number of map keys whose iteration order varies
SeedLen == 2

\* The most segments of a path given to tokenize
MaxPieces == 3

Seeds == {s \in [1..SeedLen -> 1..SeedLen] : \A i, j \in 1..SeedLen : s[i] = s[j] => i = j}

SeqsUpTo(X, n) == UNION {[1..m -> X] : m \in 0..n}

KA == S("a")
KK == S("k")
KJ == S("j")
KM == S("m")

\* {"a": [1, 2, ..., L]} and the root array [1, 2, ..., L]
Iota(L) == Arr([i \in 1..L |-> Num(i)])

IndexDocs == {Obj(KA :> Iota(L)) : L \in 0..MaxLen} \cup {Iota(L) : L \in 1..MaxLen}

\* The elements of a filtered array: objects with or without the field k
\* (a number, null, a string with a space, a numeric string, a boolean), and
\* values that are not objects
Elems ==
    << Obj(KK :> Num(10)), Obj(KK :> NullV), Obj(KK :> Num(20)), Obj(KJ :> Num(1)),
       Obj(KK :> Str(S("a b"))), Obj(KK :> Str(S("10"))), Num(5),
       Obj(KK :> Bool(TRUE)), Arr(<<>>) >>

\* The len elements of Elems from the one at start on, going round
Window(start, len) == [i \in 1..len |-> Elems[((start + i - 2) % Len(Elems)) + 1]]

\* {"a": [e1, ...], "m": 15}
FilterDocs ==
    {Obj(KA :> Arr(Window(start, len)) @@ KM :> Num(15)) :
        start \in 1..Len(Elems), len \in 1..MaxElems}

\* {"a": {"p": {"k": 1}, "q": {"k": 2}}}: a filter over the values of an object
MapDoc == Obj(KA :> Obj(S("p") :> Obj(KK :> Num(1)) @@ S("q") :> Obj(KK :> Num(2))))

\* {"a": {"k": {"j": 7}}, "k": 3}
NestedDoc == Obj(KA :> Obj(KK :> Obj(KJ :> Num(7))) @@ KK :> Num(3))

\* The bookstore of the tests
Book(category, author, title, price) ==
    S("category") :> Str(S(category)) @@ S("author") :> Str(S(author))
    @@ S("title") :> Str(S(title)) @@ S("price") :> Dec(price, 2)

Books ==
    Arr(<< Obj(Book("reference", "Nigel Rees", "Sayings of the Century", 895)),
           Obj(Book("fiction", "Evelyn Waugh", "Sword of Honour", 1299)),
           Obj(Book("fiction", "Herman Melville", "Moby Dick", 899)
               @@ S("isbn") :> Str(S("0-553-21311-3"))),
           Obj(Book("fiction", "J. R. R. Tolkien", "The Lord of the Rings", 2299)
               @@ S("isbn") :> Str(S("0-395-19395-8"))) >>)

Bookstore ==
    Obj(S("store") :> Obj(S("book") :> Books
                          @@ S("bicycle") :> Obj(S("color") :> Str(S("red"))
                                                 @@ S("price") :> Dec(1995, 2)))
        @@ S("expensive") :> Num(10))

\* {"books": [{"name": ..., "price": 10}, {"name": ..., "price": 20}]}
NumCmpDoc ==
    Obj(S("books") :> Arr(<< Obj(S("name") :> Str(S("My First Book")) @@ S("price") :> Num(10)),
                             Obj(S("name") :> Str(S("My Second Book")) @@ S("price") :> Num(20)) >>))

\* [{"test": 12.34}, {"test": 13.34}, {"test": 14.34}]
RootArrayDoc ==
    Arr(<< Obj(S("test") :> Dec(1234, 2)), Obj(S("test") :> Dec(1334, 2)),
           Obj(S("test") :> Dec(1434, 2)) >>)

\* {"head_commit": null}
NullDoc == Obj(S("head_commit") :> NullV)

\* {"a": null}
NullMemberDoc == Obj(KA :> NullV)

\* [{"k": 1}, null, 5, {"j": 2}, [{"k": 3}], {"k": null}]: an array whose
\* elements take key access in every way
MixedDoc ==
    Arr(<< Obj(KK :> Num(1)), NullV, Num(5), Obj(KJ :> Num(2)),
           Arr(<<Obj(KK :> Num(3))>>), Obj(KK :> NullV) >>)

\* {"a": 5}, {"a": "x"}, {"a": true}
ScalarMemberDocs == {Obj(KA :> v) : v \in {Num(5), Str(S("x")), Bool(TRUE)}}

Docs ==
    IndexDocs \cup FilterDocs \cup ScalarMemberDocs
    \cup {MapDoc, NestedDoc, Bookstore, NumCmpDoc, RootArrayDoc, NullDoc, Num(1), NullV,
          NullMemberDoc, MixedDoc}

\* The document and the values one level below it
Nodes(d) ==
    {d} \cup (IF d.k = "obj" THEN {d.o[x] : x \in DOMAIN d.o}
              ELSE IF d.k = "arr" THEN {d.a[i] : i \in 1..Len(d.a)}
              ELSE {})

Idxs == (0 - MaxIdx)..MaxIdx

\* A range bound: nil or an int
Bounds == {NullV} \cup {IntV(i) : i \in Idxs}

Keys == {KA, KK, KJ, <<>>}

\* The paths of the tests
Paths ==
    { S("$.expensive"), S("$.store.book[0].price"), S("$.store.book[-1].isbn"),
      S("$.store.book[0,1].price"), S("$.store.book[0:1].price"),
      S("$.store.book[:2].price"), S("$.store.book[?(@.isbn)].isbn"),
      S("$.store.book[?(@.price > 10)].title"),
      S("$.store.book[?(@.price > $.expensive)].price"),
      S("$.store.book[?(@.author == 'Nigel Rees')].price"),
      S("$.books[?(@.price > 100)].name"), S("$[0].test"),
      S("$.head_commit.author.username"), S("$.a[?(@.k)].k[0]"),
      S("$.\"store\".\"book\"[0].\"price\"") }

IntText(i) == IF i < 0 THEN <<"-">> \o NatDigits(0 - i) ELSE NatDigits(i)

BoundText(b) == IF b.k = "int" THEN IntText(b.i) ELSE <<>>

\* "$" or "$.key", then the bracket
BracketPath(key, inner) ==
    S("$") \o (IF key = <<>> THEN <<>> ELSE S(".") \o key) \o S("[") \o inner \o S("]")

IdxPath(key, is) == BracketPath(key, Join([i \in 1..Len(is) |-> IntText(is[i])], S(",")))

RangePath(key, frm, to) == BracketPath(key, BoundText(frm) \o S(":") \o BoundText(to))

FilterPath(key, filter) == BracketPath(key, S("?(") \o filter \o S(")"))

KeysPath(ks) == Join(<<S("$")>> \o ks, S("."))

\* The positions of a bracket: one or two
IdxLists == SeqsUpTo(Idxs, 2) \ {<<>>}

Ops == {S("<"), S("<="), S("=="), S(">="), S(">")}

\* The right operands of a comparison: number texts, a root path, quoted texts
Literals == {S("9"), S("10"), S("100"), S("$.m")}

Quoted == {S("a b"), S("a"), S("10"), S("true")}

\* Filters that fail: a fourth field, the regular expression operator, an
\* operator that is not a comparison
FailingFilters == {S("@.k > 1 2"), S("@.k =~ x"), S("@.k != 1")}

\* The empty path and a filter bracket without its parentheses
OddPaths == {<<>>, S("$.a[?k]")}

\* The two spellings of a wildcard segment before a key
Wildcards == {S(".."), S(".*.")}

\* The segments of the paths given to tokenize: the two wildcards and a key
Pieces == {S(".."), S(".*"), S(".k")}

WildQueries == {S("$") \o Join(ps, <<>>) : ps \in SeqsUpTo(Pieces, MaxPieces)}

\* Member names written between double quotes
QuotedNames == {S("col"), S("col.with.dots"), S("col with spaces")}

\* $."name1"."name2"...
QuotedQuery(names) ==
    S("$") \o Join([i \in 1..Len(names) |-> S(".\"") \o names[i] \o S("\"")], <<>>)

\* Paths that end with a dot
DotQueries == {S("$."), S("$.a."), S("$.."), S("$.a[0].")}

TokenizeCalls ==
    {[fn |-> "tokenize", kind |-> "wild", query |-> q] : q \in WildQueries}
    \cup {[fn |-> "tokenize", kind |-> "dot", query |-> q] : q \in DotQueries}
    \cup {[fn |-> "tokenize", kind |-> "quoted", query |-> QuotedQuery(ns), names |-> ns] :
            ns \in SeqsUpTo(QuotedNames, 2) \ {<<>>}}

\* The texts of a range bound, each with the bound it stands for
BoundTexts ==
    { [text |-> <<>>, val |-> NullV], [text |-> S("-2"), val |-> IntV(0 - 2)],
      [text |-> S("2"), val |-> IntV(2)], [text |-> S("a"), val |-> NullV],
      [text |-> S(" 1 "), val |-> IntV(1)] }

ParseTokenCalls ==
    {[fn |-> "parse_token", token |-> S("book[") \o f.text \o S(":") \o t.text \o S("]"),
      frm |-> f, to |-> t] : f \in BoundTexts, t \in BoundTexts}

\* An operand of a filter as it is written: between single quotes or bare
Written(x) == IF x.quoted THEN S("'") \o x.text \o S("'") ELSE x.text

ParseFilterCalls ==
    {[fn |-> "parse_filter", filter |-> Written(l) \o S(" ") \o op \o S(" ") \o Written(r),
      lp |-> l, op |-> op, rp |-> r] :
        l \in {[text |-> S("a b"), quoted |-> TRUE], [text |-> S("a"), quoted |-> TRUE],
               [text |-> S("@.k"), quoted |-> FALSE]},
        op \in {S("=="), S("<")},
        r \in {[text |-> S("c"), quoted |-> FALSE], [text |-> S("a b"), quoted |-> TRUE]}}

\* Paths whose bracket is not closed
OpenPaths == {S("$.a[0"), S("$.a[12"), S("$.a[0:1"), S("$.a[1,2"), S("$.a[")}

\* The filters of the direct calls of get_filtered
DirectFilters == {S("@.k"), S("@.k > 9")}

CmpFilter(op, rp) == S("@.k ") \o op \o S(" ") \o rp

QuotedFilter(lit) == S("@.k == '") \o lit \o S("'")

(***************************************************************************)
(* The calls                                                               *)
(***************************************************************************)

Init ==
    /\ obj \in Docs
    /\ given = obj
    /\ call = [fn |-> "none"]
    /\ ret = Ret(NullV, NoErr)
    /\ first = Ret(NullV, NoErr)
    /\ pc = "idle"

\* The calls of JsonPathLookup: a path of the tests, a chain of keys, a
\* bracket of positions, a range, an existence filter, a comparison with an
\* unquoted operand, an equality with a quoted text, a filter that fails
\* (alone or followed by a key), a path that is empty or ill-formed, a
\* bracket left open, a wildcard followed by a key
Call(kind, jpath, args) == [fn |-> "JsonPathLookup", kind |-> kind, jpath |-> jpath] @@ args

Calls ==
    {Call("path", p, <<>>) : p \in Paths}
    \cup {Call("keys", KeysPath(ks), [keys |-> ks]) : ks \in SeqsUpTo(Keys \ {<<>>}, 2)}
    \cup {Call("idx", IdxPath(key, is), [key |-> key, idxs |-> is]) :
            key \in {KA, <<>>}, is \in IdxLists}
    \cup {Call("range", RangePath(KA, frm, to), [key |-> KA, frm |-> frm, to |-> to]) :
            frm \in Bounds, to \in Bounds}
    \cup {Call("exists", FilterPath(KA, S("@.") \o k), [key |-> KA, field |-> k]) :
            k \in {KK, KJ}}
    \cup {Call("cmp", FilterPath(KA, CmpFilter(op, rp)), [key |-> KA, op |-> op, rp |-> rp]) :
            op \in Ops, rp \in Literals}
    \cup {Call("quoted", FilterPath(KA, QuotedFilter(lit)), [key |-> KA, lit |-> lit]) :
            lit \in Quoted}
    \cup {Call("odd", p, <<>>) : p \in OddPaths}
    \cup {Call("open", p, <<>>) : p \in OpenPaths}
    \cup {Call("scan", S("$") \o w \o k, [field |-> k]) : w \in Wildcards, k \in {KA, KK}}
    \cup {Call("failing", FilterPath(KA, f) \o more, [key |-> KA, filter |-> f, more |-> more]) :
            f \in FailingFilters, more \in {<<>>, S(".k")}}

\* A call of JsonPathLookup on the document: no statement of the function
\* writes to the document
Lookup ==
    /\ pc = "idle"
    /\ pc' = "called"
    /\ \E c \in Calls, seed \in Seeds :
        /\ call' = c
        /\ ret' = JsonPathLookup(obj, c.jpath, seed)
    /\ first' = ret'
    /\ UNCHANGED <<obj, given>>

\* The same call once more
LookupAgain ==
    /\ pc = "called"
    /\ call.fn = "JsonPathLookup"
    /\ pc' = "again"
    /\ \E seed \in Seeds : ret' = JsonPathLookup(obj, call.jpath, seed)
    /\ UNCHANGED <<obj, given, call, first>>

\* A direct call of one of the traversal functions on a value of the document
Direct(c, r) ==
    /\ pc = "idle"
    /\ pc' = "called"
    /\ call' = c
    /\ ret' = r
    /\ first' = r
    /\ UNCHANGED <<obj, given>>

GetKey ==
    \E o \in Nodes(obj), key \in Keys :
        Direct([fn |-> "get_key", o |-> o, key |-> key], get_key(o, key))

GetIdx ==
    \E o \in Nodes(obj), idx \in Idxs :
        Direct([fn |-> "get_idx", o |-> o, idx |-> idx], get_idx(o, idx))

GetRange ==
    \E o \in Nodes(obj), frm \in Bounds, to \in Bounds :
        Direct([fn |-> "get_range", o |-> o, frm |-> frm, to |-> to], get_range(o, frm, to))

Tokenize ==
    \E c \in TokenizeCalls : Direct(c, tokenize(c.query))

GetFiltered ==
    \E o \in Nodes(obj), filter \in DirectFilters, seed \in Seeds :
        Direct([fn |-> "get_filtered", o |-> o, filter |-> filter],
               get_filtered(o, obj, filter, seed))

ParseToken ==
    \E c \in ParseTokenCalls : Direct(c, parse_token(c.token))

ParseFilter ==
    \E c \in ParseFilterCalls : Direct(c, parse_filter(c.filter))

Next ==
    \/ Lookup
    \/ LookupAgain
    \/ GetKey
    \/ GetIdx
    \/ GetRange
    \/ GetFiltered
    \/ Tokenize
    \/ ParseToken
    \/ ParseFilter

Spec == Init /\ [][Next]_vars

(***************************************************************************)
(* Properties                                                              *)
(***************************************************************************)

\* The last call was a direct call of fn
Called(fn) == pc = "called" /\ call.fn = fn

\* The last call was a lookup of the given kind
IsLookup(kind) == pc \in {"called", "again"} /\ call.fn = "JsonPathLookup" /\ call.kind = kind

\* The document is an object whose member "a" is an array
HasArrayA == obj.k = "obj" /\ KA \in DOMAIN obj.o /\ obj.o[KA].k = "arr"

ArrayA == obj.o[KA].a

IsScalar(v) == v.k \in {"num", "str", "bool"}

\* The keys ks lead from d through nested objects to a value
RECURSIVE Follows(_, _)
Follows(d, ks) ==
    ks = <<>> \/ (d.k = "obj" /\ Head(ks) \in DOMAIN d.o /\ Follows(d.o[Head(ks)], Tail(ks)))

RECURSIVE Follow(_, _)
Follow(d, ks) == IF ks = <<>> THEN d ELSE Follow(d.o[Head(ks)], Tail(ks))

\* The position that index i denotes in an array of length L, from 0
Position(i, L) == IF i < 0 THEN L + i ELSE i

InRange(i, L) == 0 <= Position(i, L) /\ Position(i, L) < L

\* The element e has a field k
HasField(e, k) == e.k = "obj" /\ k \in DOMAIN e.o

\* The number that a text of digits denotes
NumberOf(s) == DigitsVal(s)

LetterOrSpace(c) == c \in {" "} \cup {AsciiHi[i] : i \in 1..26}

\* C1: for a path that resolves to a scalar, a second call of JsonPathLookup
\* returns the same result as the first, and the document is as it was
\* before the calls.
C1_Deterministic ==
    (pc = "again" /\ first.err = NoErr /\ IsScalar(first.val)) => (ret = first /\ obj = given)

\* C2: get_key on an object returns the value stored under the name when the
\* name is a key, and a nil result with a key-not-found error when it is not;
\* a path of plain keys over nested objects returns the value the keys lead
\* to, so `$.expensive` is 10 on the bookstore.
C2_GetKey ==
    /\ (Called("get_key") /\ call.o.k = "obj") =>
            IF call.key \in DOMAIN call.o.o
            THEN ret = Ret(call.o.o[call.key], NoErr)
            ELSE ret = Ret(NullV, "key error: not found in object")
    /\ (IsLookup("keys") /\ Follows(obj, call.keys)) => ret = Ret(Follow(obj, call.keys), NoErr)
    /\ (IsLookup("path") /\ call.jpath = S("$.expensive") /\ obj = Bookstore) =>
            ret = Ret(Num(10), NoErr)

\* A lookup followed two keys through nested objects
C2_Witness ==
    /\ IsLookup("keys")
    /\ Len(call.keys) = 2
    /\ Follows(obj, call.keys)
    /\ ret = Ret(Follow(obj, call.keys), NoErr)

\* C3: on an array of length L, get_idx returns the element at position i
\* when 0 <= i < L, the element at position L+i when -L <= i < 0, and an
\* out-of-range error in every other case.
C3_GetIdx ==
    (Called("get_idx") /\ call.o.k = "arr") =>
        LET L == Len(call.o.a)
            i == call.idx
        IN  IF 0 <= i /\ i < L THEN ret = Ret(call.o.a[i + 1], NoErr)
            ELSE IF 0 - L <= i /\ i < 0 THEN ret = Ret(call.o.a[L + i + 1], NoErr)
            ELSE ret = Ret(NullV, "index out of range")

\* get_idx returned the first element of an array of three for the index -3
C3_Witness ==
    /\ Called("get_idx")
    /\ call.o.k = "arr"
    /\ Len(call.o.a) = 3
    /\ call.idx = 0 - 3
    /\ ret = Ret(call.o.a[1], NoErr)

\* C4: a bracket with an empty key applies to the current value itself, so
\* `$[i]` on a root array returns the element that i denotes.
C4_EmptyKey ==
    (IsLookup("idx") /\ call.key = <<>> /\ Len(call.idxs) = 1 /\ obj.k = "arr"
        /\ InRange(call.idxs[1], Len(obj.a)))
    => ret = Ret(obj.a[Position(call.idxs[1], Len(obj.a)) + 1], NoErr)

\* C5: `key[i1,...,in]` with n >= 2 positions, all in range, yields the n
\* elements at those positions in the order requested, repeats included.
C5_MultiIndex ==
    (IsLookup("idx") /\ call.key = KA /\ Len(call.idxs) >= 2 /\ HasArrayA
        /\ \A n \in 1..Len(call.idxs) : InRange(call.idxs[n], Len(ArrayA)))
    => ret = Ret(Arr([n \in 1..Len(call.idxs) |->
                        ArrayA[Position(call.idxs[n], Len(ArrayA)) + 1]]), NoErr)

\* A lookup of two positions, the later one first, returned two elements
C5_Witness ==
    /\ IsLookup("idx")
    /\ call.key = KA
    /\ HasArrayA
    /\ Len(ArrayA) = 3
    /\ call.idxs = <<2, 0>>
    /\ ret = Ret(Arr(<<ArrayA[3], ArrayA[1]>>), NoErr)

\* The bounds that get_range resolves from and to into, on length L
FromR(frm, L) == IF frm.k # "int" THEN 0 ELSE IF frm.i < 0 THEN L + frm.i ELSE frm.i

ToR(to, L) == IF to.k # "int" THEN L ELSE IF to.i < 0 THEN L + to.i + 1 ELSE to.i + 1

\* C6: on an array of length L get_range resolves from to 0 (absent), L+from
\* (negative) or from, and to to L (absent), L+to+1 (negative) or to+1; when
\* 0 <= from_r < L and from_r <= to_r <= L it returns the elements at the
\* positions from_r .. to_r-1 in their order, so `[a:b]` with
\* 0 <= a <= b < L returns the b-a+1 elements from a to b.
C6_GetRange ==
    /\ (Called("get_range") /\ call.o.k = "arr") =>
            LET L      == Len(call.o.a)
                from_r == FromR(call.frm, L)
                to_r   == ToR(call.to, L)
            IN  (0 <= from_r /\ from_r < L /\ from_r <= to_r /\ to_r <= L) =>
                    ret = Ret(Arr([n \in 1..(to_r - from_r) |-> call.o.a[from_r + n]]), NoErr)
    /\ (IsLookup("range") /\ HasArrayA /\ call.frm.k = "int" /\ call.to.k = "int"
            /\ 0 <= call.frm.i /\ call.frm.i <= call.to.i /\ call.to.i < Len(ArrayA)) =>
            /\ ret.err = NoErr
            /\ Len(ret.val.a) = call.to.i - call.frm.i + 1
            /\ \A n \in 1..Len(ret.val.a) : ret.val.a[n] = ArrayA[call.frm.i + n]

\* get_range returned the last two of three elements for the bounds 1 and -1
C6_Witness ==
    /\ Called("get_range")
    /\ call.o.k = "arr"
    /\ Len(call.o.a) = 3
    /\ call.frm = IntV(1)
    /\ call.to = IntV(0 - 1)
    /\ ret = Ret(Arr(<<call.o.a[2], call.o.a[3]>>), NoErr)

\* C7 as stated: with an open from and to = n (n >= 1, within the array) the
\* range is the first n elements, so `[:2]` returns 2 elements.
C7_FirstN ==
    /\ (Called("get_range") /\ call.o.k = "arr" /\ call.frm = NullV /\ call.to.k = "int"
            /\ 1 <= call.to.i /\ call.to.i < Len(call.o.a)) =>
            ret = Ret(Arr(SubSeq(call.o.a, 1, call.to.i)), NoErr)
    /\ (IsLookup("path") /\ call.jpath = S("$.store.book[:2].price") /\ obj = Bookstore) =>
            (ret.err = NoErr /\ Len(ret.val.a) = 2)

\* C7 amended: with an open from and to = n (0 <= n < L) the range is the
\* first n+1 elements, the one at position n included, so `[:2]` returns 3
\* elements.
C7_FirstNPlusOne ==
    /\ (Called("get_range") /\ call.o.k = "arr" /\ call.frm = NullV /\ call.to.k = "int"
            /\ 0 <= call.to.i /\ call.to.i < Len(call.o.a)) =>
            ret = Ret(Arr(SubSeq(call.o.a, 1, call.to.i + 1)), NoErr)
    /\ (IsLookup("range") /\ HasArrayA /\ call.frm = NullV /\ call.to.k = "int"
            /\ 0 <= call.to.i /\ call.to.i < Len(ArrayA)) =>
            ret = Ret(Arr(SubSeq(ArrayA, 1, call.to.i + 1)), NoErr)
    /\ (IsLookup("path") /\ call.jpath = S("$.store.book[:2].price") /\ obj = Bookstore) =>
            ret = Ret(Arr(<<Dec(895, 2), Dec(1299, 2), Dec(899, 2)>>), NoErr)

\* `$.a[:1]` returned the first two of three elements
C7_Witness ==
    /\ IsLookup("range")
    /\ HasArrayA
    /\ Len(ArrayA) = 3
    /\ call.frm = NullV
    /\ call.to = IntV(1)
    /\ ret = Ret(Arr(<<ArrayA[1], ArrayA[2]>>), NoErr)

\* C8: `[?(@.k)]` on an array returns exactly the elements that have a field
\* k, whatever its value (null included), in document order.
C8_Exists ==
    (IsLookup("exists") /\ HasArrayA) =>
        ret = Ret(Arr(SelectSeq(ArrayA, LAMBDA e : HasField(e, call.field))), NoErr)

\* C9: when both operands of a comparison are unsigned decimal numbers (a
\* number of the document, a literal of digits) they are compared by value:
\* an element whose k is a number is selected exactly when that number
\* stands in the relation to the right operand (the literal, or the number
\* at `$.m`); `[?(@.price > 100)]` selects none of the prices 10 and 20.
C9_Numeric ==
    /\ (IsLookup("cmp") /\ HasArrayA) =>
            LET rp == IF call.rp = S("$.m") THEN obj.o[KM].n ELSE NumberOf(call.rp)
            IN  \A n \in 1..Len(ArrayA) :
                    (HasField(ArrayA[n], KK) /\ ArrayA[n].o[KK].k = "num") =>
                        /\ ret.err = NoErr
                        /\ (\E m \in 1..Len(ret.val.a) : ret.val.a[m] = ArrayA[n])
                            <=> Compare(call.op, ArrayA[n].o[KK].n < rp, ArrayA[n].o[KK].n = rp)
    /\ (IsLookup("path") /\ call.jpath = S("$.books[?(@.price > 100)].name") /\ obj = NumCmpDoc)
            => ret = Ret(Arr(<<>>), NoErr)

\* The text of the boolean b
BoolText(b) == IF b THEN S("true") ELSE S("false")

RECURSIVE KeyChainErr(_, _)
KeyChainErr(d, ks) ==
    IF ks = <<>> THEN NoErr
    ELSE IF d.k = "null" THEN ErrGetFromNullObj
    ELSE IF d.k = "obj" THEN
        IF Head(ks) \in DOMAIN d.o THEN KeyChainErr(d.o[Head(ks)], Tail(ks))
        ELSE "key error: not found in object"
    ELSE "other"

\* C11: key access on a null value fails with ErrGetFromNullObj, which is not
\* the error of a key missing from an object; a lookup whose keys go on after
\* a null value returns ErrGetFromNullObj and no value, a lookup of a key
\* missing from an object returns key-not-found and no value.
C11_NullTraversal ==
    /\ Called("get_key") /\ call.o.k = "null" => ret = Ret(NullV, ErrGetFromNullObj)
    /\ Called("get_key") /\ call.o.k = "obj" /\ call.key \notin DOMAIN call.o.o
        => ret.val = NullV /\ ret.err \notin {NoErr, ErrGetFromNullObj}
    /\ IsLookup("keys") /\ KeyChainErr(obj, call.keys) = ErrGetFromNullObj
        => ret = Ret(NullV, ErrGetFromNullObj)
    /\ IsLookup("keys") /\ KeyChainErr(obj, call.keys) = "key error: not found in object"
        => ret.val = NullV /\ ret.err \notin {NoErr, ErrGetFromNullObj}
    /\ IsLookup("path") /\ obj = NullDoc /\ call.jpath = S("$.head_commit.author.username")
        => ret = Ret(NullV, ErrGetFromNullObj)

\* A lookup of two keys on an object whose first key holds null
C11_Witness ==
    /\ IsLookup("keys") /\ obj.k = "obj" /\ Len(call.keys) = 2
    /\ Head(call.keys) \in DOMAIN obj.o /\ obj.o[Head(call.keys)] = NullV
    /\ ret.err = ErrGetFromNullObj

\* C12: every top-level key, index, range and filter step of JsonPathLookup
\* is strict: when the step fails (the parsing and the evaluation of the
\* filter included) the lookup returns that error and no value; no later
\* segment is applied and no result comes back with a nil error.
C12_Strict ==
    /\ IsLookup("keys") /\ KeyChainErr(obj, call.keys) \notin {NoErr, "other"}
        => ret = Ret(NullV, KeyChainErr(obj, call.keys))
    /\ IsLookup("idx") /\ HasArrayA /\ call.key = KA
        /\ (\E n \in 1..Len(call.idxs) : ~InRange(call.idxs[n], Len(ArrayA)))
        => ret.val = NullV /\ ret.err # NoErr
    /\ IsLookup("range") /\ HasArrayA
        /\ get_range(obj.o[KA], call.frm, call.to).err # NoErr
        => ret = get_range(obj.o[KA], call.frm, call.to)
    /\ IsLookup("failing") /\ HasArrayA
        /\ get_filtered(obj.o[KA], obj, call.filter, <<>>).err # NoErr
        => ret = Ret(NullV, get_filtered(obj.o[KA], obj, call.filter, <<>>).err)

\* What the broadcast of key over the elements a keeps: the member of an
\* object that has the key, the broadcast over an element that is an array;
\* nothing for any other element
RECURSIVE Broadcast(_, _)
Broadcast(a, key) ==
    IF a = <<>> THEN <<>>
    ELSE IF Head(a).k = "obj" /\ key \in DOMAIN Head(a).o
    THEN <<Head(a).o[key]>> \o Broadcast(Tail(a), key)
    ELSE IF Head(a).k = "arr"
    THEN <<Arr(Broadcast(Head(a).a, key))>> \o Broadcast(Tail(a), key)
    ELSE Broadcast(Tail(a), key)

\* C13: get_key on an array never fails: it returns a new array with the
\* results of get_key on the elements where it succeeds, in the order of
\* those elements; the elements where it fails (no such key, null, scalar)
\* are left out, so the result is no longer than the array.
C13_Broadcast ==
    Called("get_key") /\ call.o.k = "arr"
    => /\ ret = Ret(Arr(Broadcast(call.o.a, call.key)), NoErr)
       /\ Len(ret.val.a) <= Len(call.o.a)

\* An array where key access succeeds on some elements and fails on a null
\* and on a scalar
C13_Witness ==
    /\ Called("get_key") /\ call.o.k = "arr"
    /\ \E i, j \in 1..Len(call.o.a) : call.o.a[i] = NullV /\ call.o.a[j].k = "num"
    /\ 0 < Len(ret.val.a) /\ Len(ret.val.a) < Len(call.o.a)

\* C14: for every document and every path, the empty path included,
\* JsonPathLookup returns a value or an error: it never ends in a run-time
\* panic (an index past the end of the tokens, a failed type assertion, the
\* kind of a nil value).
C14_NoPanic ==
    pc \in {"called", "again"} /\ call.fn = "JsonPathLookup" => ~IsPanic(ret)

\* C15: a standalone * segment (from .. or .*) does not fail and does not
\* narrow the current value; the evaluation goes on with the next segment,
\* so that $..field gives what key access to field gives on the document
\* (a broadcast when the document is an array) and not an error.
C15_ScanPassThrough ==
    IsLookup("scan") /\ get_key(obj, call.field).err = NoErr
    => ret = get_key(obj, call.field)

\* C16: the tokens of a path that tokenize accepts never hold two * tokens
\* in a row: a run of wildcards, written as .., as .* or as a mix of the
\* two, anywhere in the path, gives one * token.
C16_NoDoubleStar ==
    Called("tokenize") /\ ret.err = NoErr
    => \A i \in 1..(Len(ret.tokens) - 1) :
            ~(ret.tokens[i] = <<"*">> /\ ret.tokens[i + 1] = <<"*">>)

\* C17: a member name between double quotes is one token, the text between
\* the quotes: the quotes are removed and the dots and spaces between them
\* do not split it; $."store"."book"[0]."price" is the price of the first
\* book, as $.store.book[0].price is.
C17_QuotedNames ==
    /\ Called("tokenize") /\ call.kind = "quoted"
        => ret = [tokens |-> <<S("$")>> \o call.names, err |-> NoErr]
    /\ IsLookup("path") /\ obj = Bookstore
        /\ call.jpath = S("$.\"store\".\"book\"[0].\"price\"")
        => ret = Ret(Dec(895, 2), NoErr)

\* C18: parse_token on a token with one ":" in its bracket returns the
\* operation range with the two bounds and no error; a bound that is empty
\* or is not an integer is returned as absent and is not reported as an
\* error.
C18_RangeToken ==
    Called("parse_token")
    => ret = Parsed("range", S("book"), Pair(call.frm.val, call.to.val), NoErr)

\* C19: in parse_filter the closing quote ends the quoted mode, commits the
\* text to the current field and moves to the next field, so that the
\* spaces after a quoted field are delimiters again: 'a b' == c parses to
\* the left operand a b, the operator == and the right operand c.
C19_QuotedLeft ==
    Called("parse_filter")
    => ret = [lp |-> call.lp.text, op |-> call.op, rp |-> call.rp.text, err |-> NoErr]

\* C20: a path with a "[" that no "]" closes makes JsonPathLookup return an
\* error; it is never evaluated as if the bracket were closed.
C20_OpenBracket ==
    IsLookup("open") => ret.val = NullV /\ ret.err # NoErr /\ ~IsPanic(ret)

\* C21: a "." never gives a token of its own: no token of a path that
\* tokenize accepts is the empty string, also when the path ends with "."
\* ($., $.a., $..).
C21_NoEmptyToken ==
    Called("tokenize") /\ ret.err = NoErr
    => \A i \in 1..Len(ret.tokens) : ret.tokens[i] # <<>>

\* The member "a" of the document is there and is of one of the kinds
MemberA(kinds) == obj.k = "obj" /\ KA \in DOMAIN obj.o /\ obj.o[KA].k \in kinds

\* The call returned an error and no value
Failed == ret.err # NoErr /\ ~IsPanic(ret)

\* C22: indexing, slicing or filtering a value that is not an array (for
\* filtering: neither an array nor an object) returns a type error, for a
\* number, a string, a boolean, an object and null alike, in a direct call
\* of get_idx, get_range, get_filtered and through a bracket segment of
\* JsonPathLookup ($.a[0] where a is null).
C22_TypeError ==
    /\ (Called("get_idx") \/ Called("get_range")) /\ call.o.k # "arr" => Failed
    /\ Called("get_filtered") /\ call.o.k \notin {"arr", "obj"} => Failed
    /\ (IsLookup("idx") \/ IsLookup("range")) /\ call.key = KA
        /\ MemberA({"num", "str", "bool", "obj", "null"})
        => Failed /\ ret.val = NullV
    /\ (IsLookup("exists") \/ IsLookup("cmp") \/ IsLookup("quoted"))
        /\ MemberA({"num", "str", "bool", "null"})
        => Failed /\ ret.val = NullV

\* C23: a comparison filter (<, <=, ==, >=, >) never selects an element
\* whose left operand resolves to nothing (the field is missing, or the
\* element is null), whatever the operator and the right operand.
C23_AbsentNotSelected ==
    IsLookup("cmp") /\ HasArrayA /\ ret.err = NoErr
    => \A i \in 1..Len(ret.val.a) :
            ret.val.a[i] # NullV /\ ~(ret.val.a[i].k = "obj" /\ KK \notin DOMAIN ret.val.a[i].o)

\* C24: for every array and every two bounds that pass the two bound checks
\* of get_range, the resolved from is not after the resolved to: a range
\* whose from lies after its to gives an error or an empty list, never an
\* invalid slice operation.
C24_WellFormedSlice ==
    /\ Called("get_range") /\ call.o.k = "arr"
        => ret.err # "panic: slice bounds" /\ (ret.err = NoErr => ret.val.k = "arr")
    /\ IsLookup("range") /\ HasArrayA
        => ret.err # "panic: slice bounds" /\ (ret.err = NoErr => ret.val.k = "arr")

=============================================================================
